---- MODULE Spec2Model ----
(***************************************************************************)
(* annotated-docs: JSON Schema generation from a callable's signature      *)
(* (json_schema.py) and invocation of the callable from a JSON object      *)
(* (json_schema.call, func_call.call_with_json).                           *)
(*                                                                         *)
(* Python objects are records tagged by `py`, JSON values are records      *)
(* tagged by `json`, type annotations are records tagged by `kind`, and    *)
(* JSON objects (dicts) are functions from key strings to values.          *)
(* Documentation strings are sequences of one-character strings.           *)
(***************************************************************************)
EXTENDS Integers, Sequences, FiniteSets, TLC

VARIABLES
    func,             \* the callable handed to the library
    parameters_json,  \* the raw JSON object handed to call / call_with_json
    op,               \* the public function that is running or has run
    include_returns,  \* as_json_schema's flag
    pc,               \* position of the running function
    parameter_model,  \* local of call / call_with_json
    parameters,       \* local of call / call_with_json: the validated model
    result,           \* what the function returned or raised
    validations,      \* number of model_validate passes
    invocations,      \* number of times the callable's body ran
    kwargs,           \* the keyword arguments the callable's body received
    returned          \* the value the callable's body returned

vars == <<func, parameters_json, op, include_returns, pc, parameter_model,
          parameters, result, validations, invocations, kwargs, returned>>

-----------------------------------------------------------------------------
(* Bounds of the model *)

MaxParams == 2

MaxCallParams == 2

MaxDocLen == 4

MaxDescribedParams == 2

-----------------------------------------------------------------------------
(* Dict helpers *)

\* d1 | d2 of Python: the right operand wins on a shared key
DictOr(d1, d2) == d2 @@ d1

DictDel(d, k) == [x \in DOMAIN d \ {k} |-> d[x]]

EmptyDict == [x \in {} |-> x]

Range(s) == {s[i] : i \in DOMAIN s}

-----------------------------------------------------------------------------
(* Python values and their JSON form *)

RETURNS_KEY == "returns"

\* inspect.Parameter.empty / inspect.Signature.empty
Empty == [py |-> "empty"]

PyNone == [py |-> "NoneType", repr |-> "None"]

PyInt(digits) == [py |-> "int", repr |-> digits]

PyStr(chars) == [py |-> "str", chars |-> chars]

JsonNull == [json |-> "null", text |-> "null"]

JsonInt(digits) == [json |-> "integer", text |-> digits]

JsonStr(text) == [json |-> "string", text |-> text]

\* pydantic's encoding of a default value into the schema
to_jsonable(v) ==
    CASE v.py = "NoneType" -> JsonNull
      [] v.py = "int" -> JsonInt(v.repr)
      [] v.py = "str" -> JsonStr(v.chars)

\* bool(x) of Python for the objects a __doc__ can be
Truthy(v) ==
    CASE v.py = "NoneType" -> FALSE
      [] v.py = "str" -> v.chars # <<>>
      [] OTHER -> TRUE

-----------------------------------------------------------------------------
(* Type annotations *)

IntT == [kind |-> "Primitive", py |-> "int"]
StrT == [kind |-> "Primitive", py |-> "str"]
NoneT == [kind |-> "Primitive", py |-> "NoneType"]

UnionT(members) == [kind |-> "Union", members |-> members]

LiteralT(values) == [kind |-> "Literal", values |-> values]

\* dict (value = Empty) or dict[str, value]
MappingT(value) == [kind |-> "Mapping", value |-> value]

ListT(elem) == [kind |-> "List", elem |-> elem]

\* doc(description): a pydantic.Field carrying only a description
doc(description) == [field |-> "FieldInfo", description |-> description]

AnnotatedT(inner, metadata) ==
    [kind |-> "Annotated", inner |-> inner, metadata |-> metadata]

\* pydantic.Field(...): a field with no default
FieldRequired == [field |-> "FieldInfo", default |-> "PydanticUndefined"]

\* a pydantic.BaseModel subclass; docstring is its cleaned docstring, "" for
\* none; each field is <<name, annotation, default or FieldRequired>>
StructuredT(name, docstring, fields) ==
    [kind |-> "Structured", name |-> name, docstring |-> docstring,
     fields |-> fields]

Field(name, annotation, default) ==
    [name |-> name, annotation |-> annotation, default |-> default]

\* one parameter of a signature (inspect.Parameter)
Param(name, annotation, default) ==
    [name |-> name, annotation |-> annotation, default |-> default]

\* the model of the tests:
\*   class TestModel(BaseModel):
\*       """Test model description"""
\*       b: A[int, D("param b test")]
TestModel ==
    StructuredT("TestModel", "Test model description",
        <<Field("b", AnnotatedT(IntT, <<doc("param b test")>>), FieldRequired)>>)

-----------------------------------------------------------------------------
(* JSON Schema generation of pydantic, as json_schema.py drives it *)

JsonTypeName(py) ==
    CASE py = "int" -> "integer"
      [] py = "str" -> "string"
      [] py = "NoneType" -> "null"

Last(s) == s[Len(s)]

\* keys added beside a schema; a "$ref" never gets sibling keys, it is
\* wrapped in allOf instead
WithSiblings(schema, extra) ==
    IF DOMAIN extra = {} THEN schema
    ELSE IF "$ref" \in DOMAIN schema THEN extra @@ [allOf |-> <<schema>>]
    ELSE extra @@ schema

\* the metadata entry is a FieldInfo, as doc() makes one
IsFieldInfo(entry) == "field" \in DOMAIN entry

\* the description the metadata of an Annotated carries: entries that are no
\* FieldInfo are passed over, the FieldInfos are merged attribute by
\* attribute, a later one overriding an earlier one
MetadataUpdate(metadata) ==
    LET infos == SelectSeq(metadata, IsFieldInfo)
    IN  IF infos = <<>> THEN EmptyDict
        ELSE [description |-> Last(infos).description]

RECURSIVE inner_schema(_)
inner_schema(t) ==
    CASE t.kind = "Primitive" -> [type |-> JsonTypeName(t.py)]
      [] t.kind = "Union" ->
            [anyOf |-> [i \in DOMAIN t.members |-> inner_schema(t.members[i])]]
      [] t.kind = "Literal" ->
            [enum |-> [i \in DOMAIN t.values |-> JsonStr(t.values[i])],
             type |-> "string"]
      [] t.kind = "Mapping" ->
            IF t.value = Empty THEN [type |-> "object"]
            ELSE [additionalProperties |-> inner_schema(t.value),
                  type |-> "object"]
      [] t.kind = "List" -> [items |-> inner_schema(t.elem), type |-> "array"]
      [] t.kind = "Structured" -> ("$ref" :> ("#/$defs/" \o t.name))
      [] t.kind = "Annotated" ->
            WithSiblings(inner_schema(t.inner), MetadataUpdate(t.metadata))

\* mutant: the base generator's answer, a title on every field
field_title_should_be_set_base(schema) == TRUE

\* GenerateJsonSchemaNoTitle.field_title_should_be_set
field_title_should_be_set(schema) == FALSE

\* the fragment of one field of a model: the annotation's fragment, the
\* default when the field has one, the title when the generator sets one
field_schema(f) ==
    LET dflt == IF f.default = FieldRequired THEN EmptyDict
                ELSE [default |-> to_jsonable(f.default)]
        title == IF field_title_should_be_set(f) THEN [title |-> f.name]
                 ELSE EmptyDict
        meta == IF f.annotation.kind = "Annotated"
                THEN MetadataUpdate(f.annotation.metadata) ELSE EmptyDict
        bare == IF f.annotation.kind = "Annotated" THEN f.annotation.inner
                ELSE f.annotation
    IN  WithSiblings(inner_schema(bare), meta @@ dflt @@ title)

FieldNamed(fields, n) == CHOOSE f \in Range(fields) : f.name = n

IsRequired(f) == f.default = FieldRequired

\* the object schema the base generator emits for a model class, with the
\* title it sets from the class name
model_schema(m) ==
    LET names == {m.fields[i].name : i \in DOMAIN m.fields}
        req == SelectSeq(m.fields, IsRequired)
    IN  [type |-> "object",
         properties |-> [n \in names |-> field_schema(FieldNamed(m.fields, n))],
         title |-> m.name]
        @@ (IF req = <<>> THEN EmptyDict
            ELSE [required |-> [i \in DOMAIN req |-> req[i].name]])
        @@ (IF m.docstring = "" THEN EmptyDict
            ELSE [description |-> m.docstring])

\* the model classes an annotation refers to, nested ones included
RECURSIVE ReachableModels(_)
ReachableModels(t) ==
    CASE t.kind = "Union" ->
            UNION {ReachableModels(t.members[i]) : i \in DOMAIN t.members}
      [] t.kind = "Mapping" ->
            IF t.value = Empty THEN {} ELSE ReachableModels(t.value)
      [] t.kind = "List" -> ReachableModels(t.elem)
      [] t.kind = "Annotated" -> ReachableModels(t.inner)
      [] t.kind = "Structured" ->
            {t} \cup UNION {ReachableModels(t.fields[i].annotation) :
                              i \in DOMAIN t.fields}
      [] OTHER -> {}

-----------------------------------------------------------------------------
(* Outcomes of a call: a returned value or a raised exception *)

Return(v) == [ok |-> TRUE, value |-> v]

Raise(e) == [ok |-> FALSE, error |-> e]

\* raised for a parameter without annotation
MissingAnnotation(f, name) ==
    [exc |-> "ValueError", about |-> "parameter", func |-> f.name,
     param |-> name]

\* raised for a signature without return annotation
MissingReturnAnnotation(f) ==
    [exc |-> "ValueError", about |-> "return", func |-> f.name]

-----------------------------------------------------------------------------
(* class GenerateJsonSchemaNoTitle *)

JsonRef(name) == "#/$defs/" \o name

\* GenerateJsonSchema.get_schema_from_definitions: the definition a
\* reference names, None (PyNone) when there is none
super_get_schema_from_definitions(definitions, json_ref) ==
    IF \E n \in DOMAIN definitions : JsonRef(n) = json_ref
    THEN definitions[CHOOSE n \in DOMAIN definitions : JsonRef(n) = json_ref]
    ELSE PyNone

\* mutant: the description of a definition is deleted along with its title
get_schema_from_definitions_description_deleted(definitions, json_ref) ==
    LET json_schema == super_get_schema_from_definitions(definitions, json_ref)
    IN  IF json_schema = PyNone THEN json_schema
        ELSE DictDel(DictDel(json_schema, "title"), "description")

get_schema_from_definitions(definitions, json_ref) ==
    LET json_schema == super_get_schema_from_definitions(definitions, json_ref)
    IN  IF json_schema # PyNone /\ "title" \in DOMAIN json_schema
        THEN DictDel(json_schema, "title")
        ELSE json_schema

\* GenerateJsonSchema.generate: the object schema of the model, and under
\* "$defs" the definition of every model class it refers to, each one
\* resolved through get_schema_from_definitions
super_generate(schema) ==
    LET models == UNION {ReachableModels(schema.fields[i].annotation) :
                         i \in DOMAIN schema.fields}
        names == {m.name : m \in models}
        definitions ==
            [n \in names |-> model_schema(CHOOSE m \in models : m.name = n)]
        resolved ==
            [n \in names |-> get_schema_from_definitions(definitions, JsonRef(n))]
    IN  model_schema(schema)
        @@ (IF names = {} THEN EmptyDict ELSE ("$defs" :> resolved))

generate(schema) ==
    LET json_schema == super_generate(schema)
    IN  IF "title" \in DOMAIN json_schema
        THEN DictDel(json_schema, "title")
        ELSE json_schema

-----------------------------------------------------------------------------
(* json_schema.py: models and schemas of a callable *)

\* pydantic.create_model(name, **field_definitions)
create_model(name, field_definitions) == StructuredT(name, "", field_definitions)

\* mutant: a parameter whose type admits None counts as optional
FieldDefinition_optional_not_required(obj) ==
    IF obj.default # Empty THEN Field(obj.name, obj.annotation, obj.default)
    ELSE IF obj.annotation.kind = "Union"
         THEN Field(obj.name, obj.annotation, PyNone)
    ELSE Field(obj.name, obj.annotation, FieldRequired)

\* mutant: the declared default is not handed to the model
FieldDefinition_default_dropped(obj) ==
    Field(obj.name, obj.annotation, FieldRequired)

\* the field definition get_parameter_model gives one parameter
FieldDefinition(obj) ==
    IF obj.default = Empty
    THEN Field(obj.name, obj.annotation, FieldRequired)
    ELSE Field(obj.name, obj.annotation, obj.default)

SetMin(S) == CHOOSE x \in S : \A y \in S : x <= y

\* mutant: a parameter without annotation is skipped instead of refused
get_parameter_model_skip_unannotated(f) ==
    LET annotated == SelectSeq(f.params, LAMBDA p : p.annotation # Empty)
    IN  Return(create_model("",
            [i \in DOMAIN annotated |-> FieldDefinition(annotated[i])]))

get_parameter_model(f) ==
    LET unannotated == {i \in DOMAIN f.params : f.params[i].annotation = Empty}
    IN  IF unannotated # {}
        THEN Raise(MissingAnnotation(f, f.params[SetMin(unannotated)].name))
        ELSE Return(create_model("",
                 [i \in DOMAIN f.params |-> FieldDefinition(f.params[i])]))

get_parameters_schema(f) ==
    LET parameter_model_ == get_parameter_model(f)
    IN  IF ~parameter_model_.ok THEN parameter_model_
        ELSE Return(generate(parameter_model_.value))

\* mutant: a missing return annotation is read as `-> None`
get_returns_model_missing_as_none(f) ==
    Return(create_model("",
        <<Field(RETURNS_KEY,
                IF f.return_annotation = Empty THEN NoneT
                ELSE f.return_annotation,
                FieldRequired)>>))

get_returns_model(f) ==
    IF f.return_annotation = Empty
    THEN Raise(MissingReturnAnnotation(f))
    ELSE Return(create_model("",
             <<Field(RETURNS_KEY, f.return_annotation, FieldRequired)>>))

\* mutant: the property's fragment alone is returned, without the sibling
\* keys of the wrapper
get_returns_schema_property_only(f) ==
    LET returns_model == get_returns_model(f)
    IN  IF ~returns_model.ok THEN returns_model
        ELSE Return(generate(returns_model.value)["properties"][RETURNS_KEY])

get_returns_schema(f) ==
    LET returns_model == get_returns_model(f)
    IN  IF ~returns_model.ok THEN returns_model
        ELSE
        LET schema0 == generate(returns_model.value)
            properties == schema0["properties"]
            schema1 == DictOr(DictDel(schema0, "properties"),
                              properties[RETURNS_KEY])
            schema2 == IF "required" \in DOMAIN schema1
                       THEN DictDel(schema1, "required") ELSE schema1
            schema3 == IF "type" \in DOMAIN schema2 /\ schema2["type"] = "object"
                       THEN DictDel(schema2, "type") ELSE schema2
        IN  Return(schema3)

-----------------------------------------------------------------------------
(* Strings as sequences of characters: str methods and inspect.cleandoc *)

Whitespace == {" ", "\n", "\t"}

RECURSIVE Spaces(_)
Spaces(n) == IF n <= 0 THEN <<>> ELSE <<" ">> \o Spaces(n - 1)

\* str.expandtabs(): a tab becomes spaces up to the next multiple of 8
RECURSIVE ExpandTabsFrom(_, _)
ExpandTabsFrom(s, col) ==
    IF s = <<>> THEN <<>>
    ELSE IF Head(s) = "\t"
         THEN Spaces(8 - (col % 8)) \o ExpandTabsFrom(Tail(s), 0)
    ELSE IF Head(s) = "\n" THEN <<"\n">> \o ExpandTabsFrom(Tail(s), 0)
    ELSE <<Head(s)>> \o ExpandTabsFrom(Tail(s), col + 1)

expandtabs(s) == ExpandTabsFrom(s, 0)

\* str.split("\n"): the lines of s, at least one
RECURSIVE SplitLines(_, _)
SplitLines(s, line) ==
    IF s = <<>> THEN <<line>>
    ELSE IF Head(s) = "\n" THEN <<line>> \o SplitLines(Tail(s), <<>>)
    ELSE SplitLines(Tail(s), Append(line, Head(s)))

split(s) == SplitLines(s, <<>>)

\* "\n".join(lines)
RECURSIVE join(_)
join(lines) ==
    IF lines = <<>> THEN <<>>
    ELSE IF Len(lines) = 1 THEN lines[1]
    ELSE lines[1] \o <<"\n">> \o join(Tail(lines))

RECURSIVE lstrip(_)
lstrip(s) ==
    IF s # <<>> /\ Head(s) \in Whitespace THEN lstrip(Tail(s)) ELSE s

\* mutant: the cleaned docstring is not stripped
strip_missing(s) == s

RECURSIVE rstrip(_)
rstrip(s) ==
    IF s # <<>> /\ s[Len(s)] \in Whitespace
    THEN rstrip(SubSeq(s, 1, Len(s) - 1)) ELSE s

strip(s) == rstrip(lstrip(s))

RECURSIVE PopTrailingEmpty(_)
PopTrailingEmpty(lines) ==
    IF lines # <<>> /\ lines[Len(lines)] = <<>>
    THEN PopTrailingEmpty(SubSeq(lines, 1, Len(lines) - 1)) ELSE lines

RECURSIVE PopLeadingEmpty(_)
PopLeadingEmpty(lines) ==
    IF lines # <<>> /\ lines[1] = <<>>
    THEN PopLeadingEmpty(Tail(lines)) ELSE lines

\* inspect.cleandoc
cleandoc(docstring) ==
    LET lines == split(expandtabs(docstring))
        indents == {Len(lines[i]) - Len(lstrip(lines[i])) :
                    i \in {j \in 2..Len(lines) : lstrip(lines[j]) # <<>>}}
        dedented ==
            [i \in DOMAIN lines |->
                IF i = 1 THEN lstrip(lines[1])
                ELSE IF indents = {} THEN lines[i]
                ELSE SubSeq(lines[i], SetMin(indents) + 1, Len(lines[i]))]
    IN  join(PopLeadingEmpty(PopTrailingEmpty(dedented)))

-----------------------------------------------------------------------------
(* json_schema.as_json_schema *)

as_json_schema(f, include_returns_) ==
    LET parameters_schema == get_parameters_schema(f)
    IN  IF ~parameters_schema.ok THEN parameters_schema
        ELSE
        LET named == [name |-> f.name]
            description == IF Truthy(f.doc) THEN strip(cleandoc(f.doc.chars))
                           ELSE <<>>
            described == IF Truthy(f.doc) /\ description # <<>>
                         THEN [description |-> description] @@ named
                         ELSE named
            schema_dct == [parameters |-> parameters_schema.value] @@ described
        IN  IF include_returns_
            THEN LET returns_schema == get_returns_schema(f)
                 IN  IF ~returns_schema.ok THEN returns_schema
                     ELSE Return((RETURNS_KEY :> returns_schema.value)
                                 @@ schema_dct)
            ELSE Return(schema_dct)

-----------------------------------------------------------------------------
(* pydantic validation of a JSON object against a model *)

DigitStrings == {"0", "1", "2", "3", "4", "5", "6", "7", "8", "9"}

\* validation of one JSON value against an annotation, in pydantic's lax
\* mode: the coerced Python value, or a failure
RECURSIVE validate_value(_, _)
validate_value(t, v) ==
    CASE t.kind = "Primitive" /\ t.py = "int" ->
            IF v.json = "integer" THEN Return(PyInt(v.text))
            ELSE IF v.json = "string" /\ v.text \in DigitStrings
                 THEN Return(PyInt(v.text))
            ELSE Raise("int_type")
      [] t.kind = "Primitive" /\ t.py = "str" ->
            IF v.json = "string" THEN Return(PyStr(v.text))
            ELSE Raise("string_type")
      [] t.kind = "Primitive" /\ t.py = "NoneType" ->
            IF v.json = "null" THEN Return(PyNone) ELSE Raise("none_required")
      [] t.kind = "Union" ->
            LET ok == {i \in DOMAIN t.members :
                         validate_value(t.members[i], v).ok}
            IN  IF ok = {} THEN Raise("union")
                ELSE validate_value(t.members[SetMin(ok)], v)
      [] t.kind = "Literal" ->
            IF v.json = "string" /\ v.text \in Range(t.values)
            THEN Return(PyStr(v.text)) ELSE Raise("literal_error")
      [] t.kind = "Annotated" -> validate_value(t.inner, v)
      [] t.kind = "Structured" -> Raise("model_type")
      [] t.kind = "Mapping" -> Raise("dict_type")
      [] t.kind = "List" -> Raise("list_type")

\* the value of one field: validated from the JSON object when the key is
\* there, the default (not validated) when it is not, else "missing"
validate_field(f, obj) ==
    IF f.name \in DOMAIN obj THEN validate_value(f.annotation, obj[f.name])
    ELSE IF f.default # FieldRequired THEN Return(f.default)
    ELSE Raise("missing")

\* BaseModel.model_validate: every field is validated, the error lists every
\* field that failed; keys that name no field are ignored
model_validate(model, obj) ==
    LET names == {model.fields[i].name : i \in DOMAIN model.fields}
        out == [n \in names |-> validate_field(FieldNamed(model.fields, n), obj)]
        failed == {n \in names : ~out[n].ok}
    IN  IF failed # {}
        THEN Raise([exc |-> "ValidationError",
                    errors |-> {[loc |-> n, type |-> out[n].error] : n \in failed}])
        ELSE Return([n \in names |-> out[n].value])

\* dict(parameters): the first layer of the validated model
ModelAsDict(model_instance) == model_instance

\* the value the callable's body computes from its keyword arguments
FuncBody(f, kw) == [py |-> "object", made_by |-> f.name, from |-> kw]

-----------------------------------------------------------------------------
(* The inputs the model draws *)

ParamNames == <<"a", "b", "c", "d">>

TestDoc == PyStr(<<"T", "e", "s", "t">>)

Callable(name, docstring, params, return_annotation) ==
    [name |-> name, doc |-> docstring, params |-> params,
     return_annotation |-> return_annotation]

\* the signatures with up to n parameters, named in order, each with an
\* annotation of annotations and a default of defaults
Signatures(n, annotations, defaults) ==
    UNION {
        {[i \in 1..k |-> Param(ParamNames[i], c[i][1], c[i][2])] :
            c \in [1..k -> annotations \X defaults]}
        : k \in 0..n}

SchemaAnnotations ==
    {Empty, IntT, UnionT(<<IntT, NoneT>>), LiteralT(<<"b", "c">>),
     AnnotatedT(IntT, <<doc("param a test")>>), TestModel}

SchemaDefaults == {Empty, PyInt("1"), PyNone}

ReturnAnnotations ==
    {Empty, StrT, NoneT, UnionT(<<IntT, StrT>>), TestModel,
     AnnotatedT(TestModel, <<doc("return test")>>),
     MappingT(Empty), MappingT(IntT), ListT(TestModel)}

Callables ==
    {Callable("test_func", TestDoc, ps, r) :
        ps \in Signatures(MaxParams, SchemaAnnotations, SchemaDefaults),
        r \in ReturnAnnotations}

DocChars == {" ", "\n", "\t", "T"}

Docstrings ==
    {PyNone} \cup
    {PyStr(s) : s \in UNION {[1..k -> DocChars] : k \in 0..MaxDocLen}}

DocCallables ==
    {Callable(n, d, <<>>, r) :
        n \in {"test_func", "<lambda>"}, d \in Docstrings, r \in {Empty, StrT}}

CallAnnotations == {Empty, IntT, UnionT(<<IntT, NoneT>>)}

CallDefaults == {Empty, PyInt("1")}

CallCallables ==
    {Callable("test_func", TestDoc, ps, StrT) :
        ps \in Signatures(MaxCallParams, CallAnnotations, CallDefaults)}

JsonValues == {JsonInt("1"), JsonStr("1"), JsonStr("x"), JsonNull}

JsonKeys == {"a", "b", "extra"}

\* the JSON objects over JsonKeys
JsonObjects == UNION {[keys -> JsonValues] : keys \in SUBSET JsonKeys}

\* a model class that holds another one, and a field with a default:
\*   class OuterModel(BaseModel):
\*       inner: TestModel
\*       n: int = 1
OuterModel ==
    StructuredT("OuterModel", "",
        <<Field("inner", TestModel, FieldRequired),
          Field("n", IntT, PyInt("1"))>>)

\* annotations with and without Annotated metadata: one doc(), two doc(),
\* a plain string that is no doc(), and model classes bare and described
DescribedAnnotations ==
    {IntT,
     AnnotatedT(IntT, <<doc("param a test")>>),
     AnnotatedT(IntT, <<doc("first"), doc("second")>>),
     AnnotatedT(IntT, <<PyStr(<<"m">>)>>),
     TestModel,
     AnnotatedT(TestModel, <<doc("use site")>>),
     OuterModel}

DescribedDefaults == {Empty, PyInt("1")}

DescribedReturns ==
    {StrT,
     AnnotatedT(StrT, <<doc("first"), doc("second")>>),
     AnnotatedT(StrT, <<PyStr(<<"m">>)>>),
     AnnotatedT(TestModel, <<doc("return test")>>)}

DescribedCallables ==
    {Callable("test_func", TestDoc, ps, r) :
        ps \in Signatures(MaxDescribedParams, DescribedAnnotations,
                          DescribedDefaults),
        r \in DescribedReturns}

-----------------------------------------------------------------------------
(* The state machine: one public function runs on the inputs drawn *)

\* value of a local that is not bound yet
Unset == [py |-> "unbound"]

Start(callables, objects) ==
    /\ func \in callables
    /\ parameters_json \in objects
    /\ op = "none"
    /\ include_returns = FALSE
    /\ pc = "start"
    /\ parameter_model = Unset
    /\ parameters = Unset
    /\ result = Unset
    /\ validations = 0
    /\ invocations = 0
    /\ kwargs = Unset
    /\ returned = Unset

Init == Start(Callables, {EmptyDict})

InitDoc == Start(DocCallables, {EmptyDict})

InitCall == Start(CallCallables, JsonObjects)

InitDescribed == Start(DescribedCallables, {EmptyDict})

\* a schema function runs to its end in one step
Finish(name, outcome) ==
    /\ pc = "start"
    /\ op' = name
    /\ result' = outcome
    /\ pc' = "done"
    /\ UNCHANGED <<func, parameters_json, parameter_model, parameters,
                   validations, invocations, kwargs, returned>>

AsJsonSchema ==
    \E flag \in BOOLEAN :
        /\ include_returns' = flag
        /\ Finish("as_json_schema", as_json_schema(func, flag))

GetParametersSchema ==
    /\ Finish("get_parameters_schema", get_parameters_schema(func))
    /\ UNCHANGED include_returns

GetReturnsSchema ==
    /\ Finish("get_returns_schema", get_returns_schema(func))
    /\ UNCHANGED include_returns

\* call / call_with_json, statement 1: parameter_model = get_parameter_model(func)
BuildModel(name) ==
    /\ pc = "start"
    /\ op' = name
    /\ LET built == get_parameter_model(func)
       IN  IF built.ok
           THEN /\ parameter_model' = built.value
                /\ pc' = "validate"
                /\ UNCHANGED result
           ELSE /\ result' = built
                /\ pc' = "done"
                /\ UNCHANGED parameter_model
    /\ UNCHANGED <<func, parameters_json, include_returns, parameters,
                   validations, invocations, kwargs, returned>>

\* mutant: a validation failure is swallowed and the raw object passed on
Validate_failure_swallowed(name) ==
    /\ pc = "validate"
    /\ op = name
    /\ validations' = validations + 1
    /\ LET validated == model_validate(parameter_model, parameters_json)
       IN  parameters' = IF validated.ok THEN validated.value
                         ELSE parameters_json
    /\ pc' = "invoke"
    /\ UNCHANGED <<func, parameters_json, op, include_returns, parameter_model,
                   result, invocations, kwargs, returned>>

\* statement 2: parameters = parameter_model.model_validate(parameters_json)
Validate(name) ==
    /\ pc = "validate"
    /\ op = name
    /\ validations' = validations + 1
    /\ LET validated == model_validate(parameter_model, parameters_json)
       IN  IF validated.ok
           THEN /\ parameters' = validated.value
                /\ pc' = "invoke"
                /\ UNCHANGED result
           ELSE /\ result' = validated
                /\ pc' = "done"
                /\ UNCHANGED parameters
    /\ UNCHANGED <<func, parameters_json, op, include_returns, parameter_model,
                   invocations, kwargs, returned>>

\* mutant: the callable gets the raw JSON object, not the validated values
Invoke_raw_json(name) ==
    /\ pc = "invoke"
    /\ op = name
    /\ invocations' = invocations + 1
    /\ kwargs' = parameters_json
    /\ returned' = FuncBody(func, kwargs')
    /\ result' = Return(returned')
    /\ pc' = "done"
    /\ UNCHANGED <<func, parameters_json, op, include_returns, parameter_model,
                   parameters, validations>>

\* statement 3: return func(**dict(parameters))
Invoke(name) ==
    /\ pc = "invoke"
    /\ op = name
    /\ invocations' = invocations + 1
    /\ kwargs' = ModelAsDict(parameters)
    /\ returned' = FuncBody(func, kwargs')
    /\ result' = Return(returned')
    /\ pc' = "done"
    /\ UNCHANGED <<func, parameters_json, op, include_returns, parameter_model,
                   parameters, validations>>

\* json_schema.call
call_model == BuildModel("call")
call_validate == Validate("call")
call_invoke == Invoke("call")

\* func_call.call_with_json
call_with_json_model == BuildModel("call_with_json")
call_with_json_validate == Validate("call_with_json")
\* mutant: call_with_json alone hands the raw JSON object to the callable
call_with_json_invoke_raw_json == Invoke_raw_json("call_with_json")

call_with_json_invoke == Invoke("call_with_json")

Next ==
    \/ AsJsonSchema
    \/ GetParametersSchema
    \/ GetReturnsSchema
    \/ call_model
    \/ call_validate
    \/ call_invoke
    \/ call_with_json_model
    \/ call_with_json_validate
    \/ call_with_json_invoke

\* schema generation over signatures and return annotations
Spec == Init /\ [][Next]_vars

\* schema generation over documentation strings
SpecDoc == InitDoc /\ [][Next]_vars

\* invocation over signatures and JSON objects
SpecCall == InitCall /\ [][Next]_vars

\* schema generation over Annotated metadata and model classes
SpecDescribed == InitDescribed /\ [][Next]_vars

-----------------------------------------------------------------------------
(* Vocabulary of the properties *)

Done(name) == pc = "done" /\ op = name

CallOps == {"call", "call_with_json"}

NamesOf(params) == {params[i].name : i \in DOMAIN params}

Unannotated(f) == {i \in DOMAIN f.params : f.params[i].annotation = Empty}

AllAnnotated(f) == Unannotated(f) = {}

WithoutDefault(f) ==
    {f.params[i].name : i \in {j \in DOMAIN f.params : f.params[j].default = Empty}}

Nullable(t) ==
    \/ t.kind = "Primitive" /\ t.py = "NoneType"
    \/ t.kind = "Union" /\ \E i \in DOMAIN t.members :
            t.members[i].kind = "Primitive" /\ t.members[i].py = "NoneType"

\* the parameters schemas this state holds: the result of
\* get_parameters_schema, or the `parameters` entry of as_json_schema's
EmittedParameters ==
    IF Done("get_parameters_schema") /\ result.ok THEN {result.value}
    ELSE IF Done("as_json_schema") /\ result.ok
         THEN {result.value["parameters"]}
    ELSE {}

\* the returns fragments this state holds
EmittedReturns ==
    IF Done("get_returns_schema") /\ result.ok THEN {result.value}
    ELSE IF Done("as_json_schema") /\ result.ok
            /\ RETURNS_KEY \in DOMAIN result.value
         THEN {result.value[RETURNS_KEY]}
    ELSE {}

\* a JSON value and a Python value denote the same value
SameValue(j, v) ==
    \/ j.json = "null" /\ v.py = "NoneType"
    \/ j.json = "integer" /\ v.py = "int" /\ j.text = v.repr

-----------------------------------------------------------------------------
(* C1 *)

\* C1: for a callable whose parameters are all annotated, the parameters
\* schema is produced, `properties` lists exactly the parameter names, and
\* `required` holds a name iff the parameter has no default, whether or not
\* its type admits null; with no such parameter the `required` key is absent
\* (never an empty list).
C1_RequiredIffNoDefault ==
    /\ AllAnnotated(func) /\ Done("get_parameters_schema") => result.ok
    /\ \A P \in EmittedParameters :
        /\ AllAnnotated(func)
        /\ DOMAIN P["properties"] = NamesOf(func.params)
        /\ IF WithoutDefault(func) = {}
           THEN "required" \notin DOMAIN P
           ELSE /\ "required" \in DOMAIN P
                /\ Range(P["required"]) = WithoutDefault(func)
                /\ Len(P["required"]) = Cardinality(WithoutDefault(func))

\* a schema with a required nullable parameter beside a defaulted one
C1_Witness ==
    \E P \in EmittedParameters :
        /\ "required" \in DOMAIN P
        /\ \E i \in DOMAIN func.params :
            /\ Nullable(func.params[i].annotation)
            /\ func.params[i].default = Empty
        /\ \E i \in DOMAIN func.params : func.params[i].default # Empty

-----------------------------------------------------------------------------
(* C2 *)

\* C2: the property fragment of a parameter declared with a default carries
\* a `default` key equal to the declared default; the fragment of a parameter
\* declared without default carries no `default` key.
C2_DefaultKey ==
    \A P \in EmittedParameters :
        \A i \in DOMAIN func.params :
            LET p == func.params[i]
                fragment == P["properties"][p.name]
            IN  IF p.default = Empty
                THEN "default" \notin DOMAIN fragment
                ELSE /\ "default" \in DOMAIN fragment
                     /\ SameValue(fragment["default"], p.default)

\* a schema with a parameter defaulting to None beside one without default
C2_Witness ==
    \E P \in EmittedParameters :
        /\ \E i \in DOMAIN func.params : func.params[i].default = PyNone
        /\ \E i \in DOMAIN func.params : func.params[i].default = Empty

-----------------------------------------------------------------------------
(* C3 *)

\* C3: when a parameter has no annotation, as_json_schema,
\* get_parameters_schema, call and call_with_json all end by raising the
\* error that names the callable and an unannotated parameter; no schema is
\* returned, nothing is validated and the callable is never invoked.
C3_MissingAnnotationRaises ==
    ~AllAnnotated(func) =>
        /\ invocations = 0
        /\ validations = 0
        /\ pc = "done" /\ op \in {"as_json_schema", "get_parameters_schema"}
                                  \cup CallOps =>
            /\ ~result.ok
            /\ result.error.exc = "ValueError"
            /\ result.error.about = "parameter"
            /\ result.error.func = func.name
            /\ \E i \in Unannotated(func) :
                    result.error.param = func.params[i].name

\* call has ended on a callable whose second parameter alone is unannotated,
\* with a JSON object that gives both parameters
C3_Witness ==
    /\ Done("call")
    /\ Unannotated(func) = {2}
    /\ {"a", "b"} \subseteq DOMAIN parameters_json
    /\ ~result.ok

-----------------------------------------------------------------------------
(* C4 *)

\* C4 as stated: for a callable with no declared return type, as_json_schema
\* fails with the missing-return error iff include_returns is true and
\* succeeds otherwise, and a returned document has `returns` iff
\* include_returns is true.
C4_AsStated ==
    Done("as_json_schema") =>
        /\ func.return_annotation = Empty =>
            /\ (~result.ok /\ result.error.about = "return") <=> include_returns
            /\ ~include_returns => result.ok
        /\ result.ok => (RETURNS_KEY \in DOMAIN result.value <=> include_returns)

\* C4: for a callable whose parameters are all annotated and that has no
\* declared return type, as_json_schema fails with the missing-return error
\* iff include_returns is true and succeeds otherwise; every returned
\* document has `returns` iff include_returns is true.
C4_MissingReturn ==
    Done("as_json_schema") =>
        /\ AllAnnotated(func) /\ func.return_annotation = Empty =>
            /\ (~result.ok /\ result.error.about = "return"
                    /\ result.error.exc = "ValueError"
                    /\ result.error.func = func.name) <=> include_returns
            /\ ~include_returns => result.ok
        /\ result.ok => (RETURNS_KEY \in DOMAIN result.value <=> include_returns)

\* as_json_schema with include_returns has failed on a fully annotated
\* callable that declares no return type
C4_Witness ==
    /\ Done("as_json_schema")
    /\ include_returns
    /\ func.params # <<>>
    /\ AllAnnotated(func)
    /\ func.return_annotation = Empty
    /\ ~result.ok

-----------------------------------------------------------------------------
(* C5 *)

NonWhitespace(s) == SelectSeq(s, LAMBDA c : c \notin Whitespace)

Count(s, c) == Cardinality({i \in DOMAIN s : s[i] = c})

\* d is raw cleaned: the same text, without tabs, without surrounding
\* whitespace, with the line breaks between its first and last visible
\* character kept; when the text starts on the first line of raw, the
\* indentation its later lines share is removed
IsCleaned(d, raw) ==
    LET visible == {i \in DOMAIN raw : raw[i] \notin Whitespace}
        first == SetMin(visible)
        last == CHOOSE i \in visible : \A j \in visible : j <= i
    IN  /\ d # <<>>
        /\ d[1] \notin Whitespace
        /\ d[Len(d)] \notin Whitespace
        /\ "\t" \notin Range(d)
        /\ NonWhitespace(d) = NonWhitespace(raw)
        /\ Count(d, "\n") = Count(SubSeq(raw, first, last), "\n")
        /\ "\n" \in Range(d) /\ "\n" \notin Range(SubSeq(raw, 1, first)) =>
            \E i \in 1..(Len(d) - 1) : d[i] = "\n" /\ d[i + 1] \notin Whitespace

-----------------------------------------------------------------------------
(* Traversal of a schema *)

\* the schemas directly inside a schema
SubSchemas(s) ==
    UNION {
        IF k \in {"properties", "$defs"} THEN Range(s[k])
        ELSE IF k \in {"anyOf", "allOf"} THEN Range(s[k])
        ELSE IF k \in {"items", "additionalProperties"} THEN {s[k]}
        ELSE {}
        : k \in DOMAIN s}

\* the schema has the keyword k, at the top or at any nesting level
RECURSIVE HasKeyword(_, _)
HasKeyword(s, k) ==
    k \in DOMAIN s \/ \E sub \in SubSchemas(s) : HasKeyword(sub, k)

\* the references the schema holds, at any nesting level
RECURSIVE SchemaRefs(_)
SchemaRefs(s) ==
    (IF "$ref" \in DOMAIN s THEN {s["$ref"]} ELSE {})
    \cup UNION {SchemaRefs(sub) : sub \in SubSchemas(s)}

\* the annotation without its Annotated wrapper
Bare(t) == IF t.kind = "Annotated" THEN t.inner ELSE t

-----------------------------------------------------------------------------
(* C6 *)

\* C6: a returns fragment has no wrapper artifact at its top level: no
\* `properties` key, no `required` list, and `type: object` only where the
\* return type is itself a mapping; the `$defs` of the wrapping step are kept,
\* so that every `$ref` in the fragment resolves to a definition in it and
\* every model class the return type refers to is defined.
C6_NoWrapperArtifacts ==
    \A R \in EmittedReturns :
        /\ "properties" \notin DOMAIN R
        /\ "required" \notin DOMAIN R
        /\ "type" \in DOMAIN R /\ R["type"] = "object" =>
                Bare(func.return_annotation).kind = "Mapping"
        /\ \A ref \in SchemaRefs(R) :
            /\ "$defs" \in DOMAIN R
            /\ \E n \in DOMAIN R["$defs"] : JsonRef(n) = ref
        /\ \A m \in ReachableModels(func.return_annotation) :
            /\ "$defs" \in DOMAIN R
            /\ m.name \in DOMAIN R["$defs"]

\* the returns fragment of a callable that returns a model class
C6_Witness ==
    \E R \in EmittedReturns :
        /\ Done("get_returns_schema")
        /\ ReachableModels(func.return_annotation) # {}
        /\ SchemaRefs(R) # {}
        /\ "$defs" \in DOMAIN R

-----------------------------------------------------------------------------
(* C7 *)

\* C7: the returns fragment is the fragment of the return type (that of the
\* single synthetic property) with every key and value kept, plus only the
\* `$defs` the wrapper holds beside it; for every kind of return type, a
\* mapping and a primitive included.
C7_ReturnsIsTypeFragment ==
    Done("get_returns_schema") /\ result.ok =>
        LET own == field_schema(
                Field(RETURNS_KEY, func.return_annotation, FieldRequired))
            R == result.value
        IN  /\ \A k \in DOMAIN own : k \in DOMAIN R /\ R[k] = own[k]
            /\ DOMAIN R \subseteq DOMAIN own \cup {"$defs"}

-----------------------------------------------------------------------------
(* C8 *)

\* C8: no schema that get_parameters_schema or get_returns_schema emits
\* (alone or inside as_json_schema's document) has a `title` keyword: not at
\* its top level, not on a property fragment, not in a definition under
\* `$defs`.
C8_NoTitle ==
    \A S \in EmittedParameters \cup EmittedReturns : ~HasKeyword(S, "title")

\* a parameters schema with properties and a shared definition
C8_Witness ==
    \E S \in EmittedParameters :
        /\ "$defs" \in DOMAIN S
        /\ Cardinality(DOMAIN S["properties"]) = MaxParams

-----------------------------------------------------------------------------
(* What a valid JSON object is, stated on the signature *)

\* the JSON value is one the annotation takes
RECURSIVE Accepts(_, _)
Accepts(t, v) ==
    CASE t.kind = "Primitive" /\ t.py = "int" ->
            v.json = "integer" \/ (v.json = "string" /\ v.text \in DigitStrings)
      [] t.kind = "Primitive" /\ t.py = "str" -> v.json = "string"
      [] t.kind = "Primitive" /\ t.py = "NoneType" -> v.json = "null"
      [] t.kind = "Union" ->
            \E i \in DOMAIN t.members : Accepts(t.members[i], v)
      [] t.kind = "Annotated" -> Accepts(t.inner, v)
      [] OTHER -> FALSE

\* every parameter is annotated, every key given holds a value its parameter
\* takes, and every parameter not given has a default
ValidInput(f, obj) ==
    /\ AllAnnotated(f)
    /\ \A i \in DOMAIN f.params :
        LET p == f.params[i]
        IN  IF p.name \in DOMAIN obj THEN Accepts(p.annotation, obj[p.name])
            ELSE p.default # Empty

\* the argument an int or int | None parameter is to receive
ExpectedArgument(p, obj) ==
    IF p.name \notin DOMAIN obj THEN p.default
    ELSE IF obj[p.name].json = "null" THEN PyNone
    ELSE PyInt(obj[p.name].text)

-----------------------------------------------------------------------------
(* C9 *)

\* C9: when the JSON object is valid for the callable's parameters, call and
\* call_with_json run the callable's body exactly once, on keyword arguments
\* that are the validated and coerced values, and return the very value the
\* body returned.
C9_ReturnsCallableValue ==
    pc = "done" /\ op \in CallOps /\ ValidInput(func, parameters_json) =>
        /\ result.ok
        /\ invocations = 1
        /\ result.value = returned
        /\ returned = FuncBody(func, kwargs)
        /\ DOMAIN kwargs = NamesOf(func.params)
        /\ \A i \in DOMAIN func.params :
                kwargs[func.params[i].name]
                    = ExpectedArgument(func.params[i], parameters_json)

\* call_with_json has returned after coercing a string to an int, filling in
\* a default and ignoring a key that names no parameter
C9_Witness ==
    /\ Done("call_with_json")
    /\ result.ok
    /\ Len(func.params) = 2
    /\ "a" \in DOMAIN parameters_json
    /\ parameters_json["a"] = JsonStr("1")
    /\ "b" \notin DOMAIN parameters_json
    /\ "extra" \in DOMAIN parameters_json

-----------------------------------------------------------------------------
(* C10 *)

\* C10 as stated: every execution of call / call_with_json validates exactly
\* once, before any invocation; the callable is invoked at most once and only
\* after that validation succeeded; a failed validation is raised to the
\* caller and the callable is not invoked.
C10_AsStated ==
    /\ pc = "done" /\ op \in CallOps => validations = 1
    /\ invocations <= 1
    /\ invocations = 1 => validations = 1 /\ ValidInput(func, parameters_json)
    /\ pc = "done" /\ op \in CallOps /\ AllAnnotated(func)
            /\ ~ValidInput(func, parameters_json) =>
        /\ ~result.ok
        /\ result.error.exc = "ValidationError"
        /\ invocations = 0

\* what C10 says of a state, with `exactly once` kept for the callables whose
\* parameters are all annotated
C10_State ==
    /\ validations <= 1
    /\ invocations <= 1
    /\ pc = "done" /\ op \in CallOps =>
            (validations = 1 <=> AllAnnotated(func))
    /\ invocations = 1 => validations = 1 /\ ValidInput(func, parameters_json)
    /\ pc = "done" /\ op \in CallOps /\ AllAnnotated(func)
            /\ ~ValidInput(func, parameters_json) =>
        /\ ~result.ok
        /\ result.error.exc = "ValidationError"
        /\ \A e \in result.error.errors :
                e.loc \in NamesOf(func.params)
        /\ invocations = 0

\* what C10 says of a step: the invocation comes in a later step than the one
\* validation, and nothing is validated again
C10_Step ==
    /\ invocations' # invocations =>
        /\ invocations' = invocations + 1
        /\ validations = 1
        /\ validations' = validations
        /\ pc = "invoke"
    /\ validations' # validations =>
        /\ validations' = validations + 1
        /\ validations = 0
        /\ invocations = 0
        /\ invocations' = 0

\* C10: in every execution of call / call_with_json on a callable whose
\* parameters are all annotated, the JSON object is validated exactly once
\* and strictly before any invocation of the callable (with an unannotated
\* parameter nothing is validated at all); the callable is invoked at most
\* once, and only after that single validation succeeded; a failed
\* validation is raised to the caller as a ValidationError, nothing is
\* retried and the callable is not invoked.
C10_ValidatedOnceBeforeInvoked == [] C10_State /\ [][C10_Step]_vars

\* call has ended on a validation error that lists two fields
C10_Witness ==
    /\ Done("call")
    /\ validations = 1
    /\ invocations = 0
    /\ ~result.ok
    /\ result.error.exc = "ValidationError"
    /\ Cardinality(result.error.errors) = 2

-----------------------------------------------------------------------------
(* Annotated types and the fragments emitted for them *)

\* the descriptions the metadata gives, in declared order: one per doc()
DescriptionEntries(metadata) ==
    LET infos == SelectSeq(metadata, IsFieldInfo)
    IN  [i \in DOMAIN infos |-> infos[i].description]

\* the entries joined with "; "
RECURSIVE JoinedWith(_)
JoinedWith(entries) ==
    IF Len(entries) = 1 THEN entries[1]
    ELSE entries[1] \o "; " \o JoinedWith(Tail(entries))

\* the fragment is that of the primitive or model class `inner`
CarriesInner(fragment, inner) ==
    IF inner.kind = "Primitive"
    THEN "type" \in DOMAIN fragment /\ fragment["type"] = JsonTypeName(inner.py)
    ELSE SchemaRefs(fragment) = {JsonRef(inner.name)}

\* the pairs <<annotation, fragment emitted for it>> this state holds, one
\* per Annotated parameter or return type
AnnotatedFragments ==
    {<<func.params[i].annotation, P["properties"][func.params[i].name]>> :
        i \in {j \in DOMAIN func.params :
                 func.params[j].annotation.kind = "Annotated"},
        P \in EmittedParameters}
    \cup
    {<<func.return_annotation, R>> :
        R \in {X \in EmittedReturns :
                 func.return_annotation.kind = "Annotated"}}

-----------------------------------------------------------------------------
(* C11 *)

\* C11: the fragment emitted for a parameter or return type
\* Annotated(inner, metadata) is the fragment of `inner` with a `description`
\* that equals all description entries of the metadata joined with "; " in
\* declared order (a single entry verbatim); with no description entry in
\* the metadata, the annotation attaches no `description`.
C11_JoinedDescription ==
    \A af \in AnnotatedFragments :
        LET entries == DescriptionEntries(af[1].metadata)
            fragment == af[2]
        IN  /\ CarriesInner(fragment, af[1].inner)
            /\ IF entries = <<>> THEN "description" \notin DOMAIN fragment
               ELSE /\ "description" \in DOMAIN fragment
                    /\ fragment["description"] = JoinedWith(entries)

-----------------------------------------------------------------------------
(* C12 *)

\* the model classes reachable from the parameter types
ParameterModels(f) ==
    UNION {ReachableModels(f.params[i].annotation) : i \in DOMAIN f.params}

\* the fragment is a reference to the definition of the model class `name`:
\* the bare `$ref`, or the `$ref` under allOf beside the keys of the use site
IsRefTo(fragment, name) ==
    LET ref == ("$ref" :> JsonRef(name))
    IN  \/ fragment = ref
        \/ /\ "allOf" \in DOMAIN fragment
           /\ fragment["allOf"] = <<ref>>
           /\ DOMAIN fragment \subseteq {"allOf", "description", "default"}

\* D is the object definition of the model class m: its properties, the
\* required list of its fields without default, the description of a field
\* on the fragment of the field, and the description of the class itself
IsDefinitionOf(D, m) ==
    LET required == {m.fields[i].name :
                        i \in {j \in DOMAIN m.fields :
                                 m.fields[j].default = FieldRequired}}
    IN  /\ "type" \in DOMAIN D /\ D["type"] = "object"
        /\ "properties" \in DOMAIN D
        /\ DOMAIN D["properties"] = NamesOf(m.fields)
        /\ IF required = {} THEN "required" \notin DOMAIN D
           ELSE /\ "required" \in DOMAIN D
                /\ Range(D["required"]) = required
                /\ Len(D["required"]) = Cardinality(required)
        /\ IF m.docstring = "" THEN "description" \notin DOMAIN D
           ELSE "description" \in DOMAIN D /\ D["description"] = m.docstring
        /\ \A i \in DOMAIN m.fields :
            LET f == m.fields[i]
                fragment == D["properties"][f.name]
                entries == IF f.annotation.kind = "Annotated"
                           THEN DescriptionEntries(f.annotation.metadata)
                           ELSE <<>>
            IN  /\ IF entries = <<>> THEN "description" \notin DOMAIN fragment
                   ELSE /\ "description" \in DOMAIN fragment
                        /\ fragment["description"] = Last(entries)
                /\ Bare(f.annotation).kind = "Structured" =>
                        IsRefTo(fragment, Bare(f.annotation).name)
                /\ Bare(f.annotation).kind # "Structured" =>
                        ~HasKeyword(fragment, "$ref")

\* C12: the parameters schema holds, under `$defs`, one definition per model
\* class reachable from the parameter types, keyed by the name of the class
\* and nothing else; the definition is the object definition of the class
\* (properties, required list of the fields without default, field
\* descriptions on the field fragments, the class's own description); no
\* property fragment holds an object definition inline, every use of a model
\* class is a `$ref` to its definition, also when two parameters use the same
\* class; the description of an Annotated wrapper is on the fragment of the
\* use site and the shared definition is the same with or without it.
C12_SharedDefinitions ==
    \A P \in EmittedParameters :
        LET models == ParameterModels(func)
            defs == IF "$defs" \in DOMAIN P THEN P["$defs"] ELSE EmptyDict
        IN  /\ DOMAIN defs = {m.name : m \in models}
            /\ \A m \in models : IsDefinitionOf(defs[m.name], m)
            /\ \A fragment \in Range(P["properties"])
                    \cup UNION {Range(defs[n]["properties"]) : n \in DOMAIN defs} :
                    ~HasKeyword(fragment, "properties")
            /\ \A i \in DOMAIN func.params :
                LET p == func.params[i]
                    fragment == P["properties"][p.name]
                    entries == IF p.annotation.kind = "Annotated"
                               THEN DescriptionEntries(p.annotation.metadata)
                               ELSE <<>>
                IN  IF Bare(p.annotation).kind = "Structured"
                    THEN /\ IsRefTo(fragment, Bare(p.annotation).name)
                         /\ IF entries = <<>>
                            THEN "description" \notin DOMAIN fragment
                            ELSE /\ "description" \in DOMAIN fragment
                                 /\ fragment["description"] = Last(entries)
                    ELSE ~HasKeyword(fragment, "$ref")

\* a parameters schema of two parameters of the same model class, one bare
\* and one under an Annotated with a description, with one shared definition
C12_Witness ==
    \E P \in EmittedParameters :
        /\ Done("get_parameters_schema")
        /\ Len(func.params) = 2
        /\ func.params[1].annotation = TestModel
        /\ func.params[2].annotation.kind = "Annotated"
        /\ func.params[2].annotation.inner = TestModel
        /\ "description" \in DOMAIN P["properties"]["b"]
        /\ P["properties"]["b"]["description"]
                # P["$defs"]["TestModel"]["description"]
        /\ Cardinality(DOMAIN P["$defs"]) = 1

-----------------------------------------------------------------------------
(* C13 *)

\* the parameters the JSON object gives no valid value for: given with a
\* value the annotation does not take, or not given and without default
InvalidFields(f, obj) ==
    {f.params[i].name :
        i \in {j \in DOMAIN f.params :
                 IF f.params[j].name \in DOMAIN obj
                 THEN ~Accepts(f.params[j].annotation, obj[f.params[j].name])
                 ELSE f.params[j].default = Empty}}

\* the end of an invocation, told from the callable and the JSON object alone
\* and so the same for call and call_with_json: the error of the first
\* unannotated parameter, or a validation error on exactly the invalid
\* fields, or the value of the body run on the expected arguments
EndsAsInputsTell ==
    IF ~AllAnnotated(func)
    THEN /\ result = Raise(MissingAnnotation(func,
                        func.params[SetMin(Unannotated(func))].name))
         /\ kwargs = Unset
    ELSE IF InvalidFields(func, parameters_json) # {}
    THEN /\ ~result.ok
         /\ result.error.exc = "ValidationError"
         /\ {e.loc : e \in result.error.errors}
                = InvalidFields(func, parameters_json)
         /\ kwargs = Unset
    ELSE /\ kwargs = [n \in NamesOf(func.params) |->
                        ExpectedArgument(
                            CHOOSE p \in Range(func.params) : p.name = n,
                            parameters_json)]
         /\ result = Return(FuncBody(func, kwargs))

\* C13: whenever call or call_with_json invokes the callable, the names of
\* the keyword arguments are exactly the names of the declared parameters: a
\* parameter the JSON object does not give is passed with its declared
\* default, and a key of the JSON object that names no parameter is not
\* passed; call and call_with_json end the same way on the same callable and
\* JSON object.
C13_ExactlyDeclaredNames ==
    /\ invocations > 0 =>
        /\ DOMAIN kwargs = NamesOf(func.params)
        /\ \A i \in DOMAIN func.params :
            func.params[i].name \notin DOMAIN parameters_json =>
                /\ func.params[i].default # Empty
                /\ kwargs[func.params[i].name] = func.params[i].default
        /\ \A k \in DOMAIN parameters_json \ NamesOf(func.params) :
                k \notin DOMAIN kwargs
    /\ pc = "done" /\ op \in CallOps => EndsAsInputsTell

\* call_with_json has invoked a callable of two defaulted parameters on a
\* JSON object whose only key names no parameter
C13_Witness ==
    /\ Done("call_with_json")
    /\ invocations = 1
    /\ Len(func.params) = 2
    /\ DOMAIN parameters_json = {"extra"}
    /\ kwargs = [n \in {"a", "b"} |-> PyInt("1")]

====
